---- MODULE Spec2Model ----
(***************************************************************************)
(* Model of two parts of fcl:                                              *)
(*   - include/fcl/distance.h: the distance() narrow-phase dispatcher and  *)
(*     the lazily built per-solver distance function look-up table;        *)
(*   - include/fcl/shape/halfspace.h: the Halfspace shape, transform() and *)
(*     the ComputeBVImpl specialisations that fit bounding volumes to it.  *)
(*                                                                         *)
(* Specifications:                                                         *)
(*   Spec          sequential callers of distance()                        *)
(*   SpecInit      concurrent callers racing on the first use of the table *)
(*   SpecHalfspace construction, transformation and BV fitting of a        *)
(*                 Halfspace                                               *)
(***************************************************************************)
EXTENDS Integers, Sequences, FiniteSets, TLC

VARIABLES
  tables,   \* per solver type: the function-local static table and its guard
  heap,     \* solver objects currently alive (caller-owned and call-owned)
  ret,      \* observation of the most recent distance() call that returned
  pc,       \* SpecInit: per thread, position inside distance()
  targs,    \* SpecInit: per thread, the arguments of the running call
  h,        \* SpecHalfspace: the Halfspace object
  last      \* SpecHalfspace: the most recent operation, its inputs and output

vars == <<tables, heap, ret, pc, targs, h, last>>

distVars == <<tables, heap, ret>>
initVars == <<pc, targs>>
hsVars   == <<h, last>>

(***************************************************************************)
(* Part 1: distance.h                                                      *)
(***************************************************************************)

\* NarrowPhaseSolver template arguments used by the request overloads.
Solvers == {"GJKSolver_libccd", "GJKSolver_indep"}

\* request.gjk_solver_type; GST_OTHER stands for any value outside the enum.
GJKSolverTypes == {"GST_LIBCCD", "GST_INDEP", "GST_OTHER"}

\* Node types of the operands used by the model.
NodeTypes == {"BV_AABB", "GEOM_BOX", "GEOM_HALFSPACE"}

\* CollisionGeometry::getObjectType() of an operand with the given node type.
getObjectType(node) ==
  IF node = "BV_AABB" THEN "OT_BVH" ELSE "OT_GEOM"

\* Number of distinct transforms a caller may pass.
NumTransforms == 2

Transforms3 == 1..NumTransforms

\* DistanceRequest values: the field distance() itself reads.
Requests == [gjk_solver_type : GJKSolverTypes]

\* std::numeric_limits<Scalar>::max(), the initial value of res.
ScalarMax == 2147483647

NULL == "NULL"

\* The null solver pointer (nsolver_ of a caller that supplies no solver).
NullSolver == 0

\* The caller-owned solver object of each solver type.
CallerSolver(S) == IF S = "GJKSolver_libccd" THEN 1 ELSE 2

CallerSolvers == {CallerSolver(S) : S \in Solvers}

\* Address of a solver allocated by a call: any address not alive.
FreshSolver(hp) == CHOOSE a \in 1..(Cardinality(hp) + 1) : a \notin hp

\* The cells a constructed DistanceFunctionMatrix holds: shape-shape pairs,
\* (BVH, shape) pairs with the BVH as the row, and BVH pairs of one BV type.
\* Every other cell is empty.
Registered(row, col) ==
  CASE row = "GEOM_BOX" /\ col = "GEOM_BOX" -> "ShapeShapeDistance"
    [] row = "BV_AABB" /\ col = "GEOM_BOX"  -> "BVHShapeDistancer"
    [] row = "BV_AABB" /\ col = "BV_AABB"   -> "BVHDistance"
    [] OTHER -> NULL

\* Zero-initialised static storage: every cell a null function pointer.
EmptyMatrix == [c \in NodeTypes \X NodeTypes |-> NULL]

\* Construction order of the matrix: the rows are filled one after another.
RowOrder == <<"GEOM_BOX", "GEOM_HALFSPACE", "BV_AABB">>

\* The matrix after the constructor has filled the first k rows.
DistanceFunctionMatrix(k) ==
  [c \in NodeTypes \X NodeTypes |->
     IF \E i \in 1..k : RowOrder[i] = c[1] THEN Registered(c[1], c[2]) ELSE NULL]

NumRows == Len(RowOrder)

\* A routine stored in the table, called with (o1, tf1, o2, tf2, nsolver,
\* request, result): the distance it reports and the result it fills in.
\* The value is an injective encoding of the routine and the geometric
\* arguments, so that two calls agree only when they are the same call.
NodeIndex(node) ==
  CASE node = "BV_AABB" -> 1 [] node = "GEOM_BOX" -> 2 [] OTHER -> 3

RoutineDistance(fn, a1, tfa1, a2, tfa2) ==
  ((NodeIndex(a1) * 5 + tfa1) * 5 + NodeIndex(a2)) * 5 + tfa2

RoutineResult(fn, a1, tfa1, a2, tfa2) ==
  [o1 |-> a1, o2 |-> a2, min_distance |-> RoutineDistance(fn, a1, tfa1, a2, tfa2)]

NoResult == [o1 |-> NULL, o2 |-> NULL, min_distance |-> ScalarMax]

\* getDistanceFunctionLookTable<S>() run by one thread to completion: the
\* static local is constructed on the first call and returned afterwards.
getDistanceFunctionLookTable(tb, S) ==
  IF tb[S].guard = "done"
  THEN tb
  ELSE [tb EXCEPT ![S] = [guard |-> "done", rows |-> NumRows,
                          distance_matrix |-> DistanceFunctionMatrix(NumRows),
                          builds |-> @.builds + 1]]

\* The cell distance() reads and the routine arguments it passes.
\* Mutants: no operand swap; swap of the cell but not of the arguments.
Dispatch_noswap(o1, tf1, o2, tf2) ==
  [row |-> o1, col |-> o2, a1 |-> o1, tfa1 |-> tf1, a2 |-> o2, tfa2 |-> tf2]

Dispatch(o1, tf1, o2, tf2) ==
  IF getObjectType(o1) = "OT_GEOM" /\ getObjectType(o2) = "OT_BVH"
  THEN [row |-> o2, col |-> o1, a1 |-> o2, tfa1 |-> tf2, a2 |-> o1, tfa2 |-> tf1]
  ELSE [row |-> o1, col |-> o2, a1 |-> o1, tfa1 |-> tf1, a2 |-> o2, tfa2 |-> tf2]

\* Value of res when the cell is empty.  Mutant: an error code instead.
Unsupported_errcode == 0 - 1

Unsupported == ScalarMax

\* Whether distance() deletes nsolver before returning.
\* Mutant: the unsupported branch returns early without the delete.
ReleasesSolver_leak(nsolver_, invoked) == nsolver_ = NullSolver /\ invoked

ReleasesSolver(nsolver_, invoked) == nsolver_ = NullSolver

\* The solver instance handed to the routine.
\* Mutant: a new solver is always constructed.
AllocatesSolver_always(nsolver_) == TRUE

AllocatesSolver(nsolver_) == nsolver_ = NullSolver

\* distance<S>(o1, tf1, o2, tf2, nsolver_, request, result) given the table
\* `looktable` and the live solvers `hp`: everything the call does.
distance(S, o1, tf1, o2, tf2, nsolver_, request, looktable, hp) ==
  LET allocated == AllocatesSolver(nsolver_)
      nsolver   == IF allocated THEN FreshSolver(hp) ELSE nsolver_
      hp1       == IF allocated THEN hp \cup {nsolver} ELSE hp
      d         == Dispatch(o1, tf1, o2, tf2)
      fn        == looktable.distance_matrix[<<d.row, d.col>>]
      invoked   == fn # NULL
      res       == IF invoked
                   THEN RoutineDistance(fn, d.a1, d.tfa1, d.a2, d.tfa2)
                   ELSE Unsupported
      released  == ReleasesSolver(nsolver_, invoked)
      hp2       == IF released THEN hp1 \ {nsolver} ELSE hp1
  IN  [res         |-> res,
       returned    |-> TRUE,
       invoked     |-> invoked,
       cell        |-> <<d.row, d.col>>,
       fn          |-> fn,
       args        |-> IF invoked
                       THEN <<d.a1, d.tfa1, d.a2, d.tfa2, nsolver, request>>
                       ELSE <<>>,
       result      |-> IF invoked
                       THEN RoutineResult(fn, d.a1, d.tfa1, d.a2, d.tfa2)
                       ELSE NoResult,
       warned      |-> ~invoked,
       nsolver     |-> nsolver,
       constructed |-> IF allocated THEN {nsolver} ELSE {},
       released    |-> IF released THEN {nsolver} ELSE {},
       heap        |-> hp2]

\* The call a record of `ret` describes.
CallOf(S, o1, tf1, o2, tf2, nsolver_, request, via) ==
  [S |-> S, o1 |-> o1, tf1 |-> tf1, o2 |-> o2, tf2 |-> tf2,
   nsolver_ |-> nsolver_, request |-> request, via |-> via]

NoCall == [via |-> "none"]

TablesInit ==
  [S \in Solvers |-> [guard |-> "uninit", rows |-> 0,
                  distance_matrix |-> EmptyMatrix, builds |-> 0]]

\* A caller invokes distance<S>() directly, with its own solver or with none.
DistanceCall(S, o1, tf1, o2, tf2, nsolver_, request) ==
  LET tb  == getDistanceFunctionLookTable(tables, S)
      out == distance(S, o1, tf1, o2, tf2, nsolver_, request, tb[S], heap)
  IN  /\ tables' = tb
      /\ heap' = out.heap
      /\ ret' = [call |-> CallOf(S, o1, tf1, o2, tf2, nsolver_, request, "template"),
                 out |-> out, heapBefore |-> heap]
      /\ UNCHANGED <<initVars, hsVars>>

\* distance(o1, tf1, o2, tf2, request, result): the solver is chosen by
\* request.gjk_solver_type, lives on the stack of the overload and is passed
\* by address; an unknown solver type returns -1.
SolverOfType(gst) ==
  IF gst = "GST_LIBCCD" THEN "GJKSolver_libccd" ELSE "GJKSolver_indep"

DistanceByRequest(o1, tf1, o2, tf2, request) ==
  IF request.gjk_solver_type \in {"GST_LIBCCD", "GST_INDEP"}
  THEN LET S      == SolverOfType(request.gjk_solver_type)
           solver == FreshSolver(heap)
           tb     == getDistanceFunctionLookTable(tables, S)
           out    == distance(S, o1, tf1, o2, tf2, solver, request, tb[S],
                              heap \cup {solver})
       IN  /\ tables' = tb
           /\ heap' = out.heap \ {solver}
           /\ ret' = [call |-> CallOf(S, o1, tf1, o2, tf2, solver, request, "request"),
                      out |-> out, heapBefore |-> heap \cup {solver}]
           /\ UNCHANGED <<initVars, hsVars>>
  ELSE /\ ret' = [call |-> CallOf(NULL, o1, tf1, o2, tf2, NullSolver, request, "default"),
                  out |-> [res |-> 0 - 1, returned |-> TRUE, invoked |-> FALSE,
                           cell |-> <<>>, fn |-> NULL, args |-> <<>>,
                           result |-> NoResult, warned |-> FALSE, nsolver |-> NullSolver,
                           constructed |-> {}, released |-> {}, heap |-> heap],
                  heapBefore |-> heap]
       /\ UNCHANGED <<tables, heap, initVars, hsVars>>

NoRet == [call |-> NoCall]

DistInit ==
  /\ tables = TablesInit
  /\ heap = CallerSolvers
  /\ ret = NoRet

Init ==
  /\ DistInit
  /\ pc = <<>>
  /\ targs = <<>>
  /\ h = NULL
  /\ last = NULL

Next ==
  \/ \E S \in Solvers, o1 \in NodeTypes, o2 \in NodeTypes,
        tf1 \in Transforms3, tf2 \in Transforms3, request \in Requests :
       \E nsolver_ \in {NullSolver, CallerSolver(S)} :
         DistanceCall(S, o1, tf1, o2, tf2, nsolver_, request)
  \/ \E o1 \in NodeTypes, o2 \in NodeTypes,
        tf1 \in Transforms3, tf2 \in Transforms3, request \in Requests :
       DistanceByRequest(o1, tf1, o2, tf2, request)

Spec == Init /\ [][Next]_vars

(***************************************************************************)
(* Concurrent first calls (SpecInit).  distance() is split where it        *)
(* touches the shared table: entering getDistanceFunctionLookTable(), the  *)
(* construction of the static local, and the rest of the call.  Callers    *)
(* pass their own solver, so the heap is not involved.                     *)
(***************************************************************************)

\* Number of threads calling distance() concurrently.
NumThreads == 2

Threads == 1..NumThreads

\* Operand pairs of the concurrent callers: one supported after the operand
\* swap, one unsupported.
ThreadOperands == {<<"GEOM_BOX", "BV_AABB">>, <<"GEOM_HALFSPACE", "GEOM_BOX">>}

NoArgs == [S |-> NULL]

RequestOf(S) ==
  [gjk_solver_type |-> IF S = "GJKSolver_libccd" THEN "GST_LIBCCD" ELSE "GST_INDEP"]

\* Initialisation of a function-local static (C++11 [stmt.dcl]): the first
\* thread to reach the declaration constructs the object; a thread reaching
\* it while the construction runs waits for it to complete.
\* Mutant: no guard, every thread that finds the table unfinished builds it.
StaticInitAdmits_unguarded(guard) == guard # "done"

StaticInitAdmits(guard) == guard = "uninit"

\* Thread t calls distance<S>(o1, tf1, o2, tf2, &solver, request, result).
ThreadCall(t, S, ops) ==
  /\ pc[t] = "idle"
  /\ pc' = [pc EXCEPT ![t] = "enter"]
  /\ targs' = [targs EXCEPT ![t] = [S |-> S, o1 |-> ops[1], o2 |-> ops[2]]]
  /\ UNCHANGED <<distVars, hsVars>>

\* Thread t reaches `static DistanceFunctionMatrix<S> table;`.
TableEnter(t) ==
  /\ pc[t] = "enter"
  /\ LET S == targs[t].S IN
       IF tables[S].guard = "done"
       THEN /\ pc' = [pc EXCEPT ![t] = "lookup"]
            /\ UNCHANGED tables
       ELSE /\ StaticInitAdmits(tables[S].guard)
            /\ tables' = [tables EXCEPT ![S] =
                            [guard |-> "initializing", rows |-> 0,
                             distance_matrix |-> EmptyMatrix,
                             builds |-> @.builds + 1]]
            /\ pc' = [pc EXCEPT ![t] = "construct"]
  /\ UNCHANGED <<heap, ret, targs, hsVars>>

\* The constructing thread fills the next row; after the last row the
\* initialisation is complete and the waiting threads are released.
TableConstruct(t) ==
  /\ pc[t] = "construct"
  /\ LET S == targs[t].S
         k == tables[S].rows + 1
     IN  /\ k <= NumRows
         /\ tables' = [tables EXCEPT ![S] =
                         [guard |-> IF k = NumRows THEN "done" ELSE "initializing",
                          rows |-> k,
                          distance_matrix |-> DistanceFunctionMatrix(k),
                          builds |-> @.builds]]
         /\ pc' = [pc EXCEPT ![t] = IF k = NumRows THEN "lookup" ELSE "construct"]
  /\ UNCHANGED <<heap, ret, targs, hsVars>>

\* Thread t, holding the reference to the table, runs the rest of distance().
ThreadLookup(t) ==
  /\ pc[t] = "lookup"
  /\ LET a   == targs[t]
         out == distance(a.S, a.o1, 1, a.o2, 2, CallerSolver(a.S), RequestOf(a.S),
                         tables[a.S], heap)
     IN  /\ heap' = out.heap
         /\ ret' = [call |-> CallOf(a.S, a.o1, 1, a.o2, 2, CallerSolver(a.S),
                                    RequestOf(a.S), "template"),
                    out |-> out, heapBefore |-> heap]
  /\ pc' = [pc EXCEPT ![t] = "idle"]
  /\ targs' = [targs EXCEPT ![t] = NoArgs]
  /\ UNCHANGED <<tables, hsVars>>

InitInit ==
  /\ DistInit
  /\ pc = [t \in Threads |-> "idle"]
  /\ targs = [t \in Threads |-> NoArgs]
  /\ h = NULL
  /\ last = NULL

NextInit ==
  \/ \E t \in Threads, S \in Solvers, ops \in ThreadOperands : ThreadCall(t, S, ops)
  \/ \E t \in Threads : TableEnter(t)
  \/ \E t \in Threads : TableConstruct(t)
  \/ \E t \in Threads : ThreadLookup(t)

SpecInit == InitInit /\ [][NextInit]_vars

(***************************************************************************)
(* Claims about distance()                                                 *)
(***************************************************************************)

Returned == ret.call.via \in {"template", "request"}

\* The table cell of a call after operand-order normalisation, as the
\* documentation of the dispatcher states it: the BVH operand is the row.
NormalisedCell(o1, o2) ==
  IF getObjectType(o1) = "OT_GEOM" /\ getObjectType(o2) = "OT_BVH"
  THEN <<o2, o1>> ELSE <<o1, o2>>

\* C1: whenever the cell selected for the operand pair (after the operand
\* swap) is empty, the call invokes no routine, passes no arguments, and
\* returns std::numeric_limits<Scalar>::max(), in either argument order and
\* for both solver types; the call returns.
C1_UnsupportedReturnsSentinel ==
  Returned =>
    LET cell == NormalisedCell(ret.call.o1, ret.call.o2) IN
      Registered(cell[1], cell[2]) = NULL =>
        /\ ret.out.returned
        /\ ~ret.out.invoked
        /\ ret.out.args = <<>>
        /\ ret.out.res = ScalarMax

\* C1 witness: an unsupported (GEOM, BVH) pair, which is looked up swapped.
C1_Witness ==
  /\ Returned
  /\ ret.call.o1 = "GEOM_HALFSPACE" /\ ret.call.o2 = "BV_AABB"
  /\ ret.call.S = "GJKSolver_indep"
  /\ ret.out.res = ScalarMax /\ ~ret.out.invoked

MixedPair(c) ==
  {getObjectType(c.o1), getObjectType(c.o2)} = {"OT_GEOM", "OT_BVH"}

\* C2: for a call with one OT_GEOM operand p and one OT_BVH operand h, in
\* either argument order, the cell read is [tag(h)][tag(p)], the routine is
\* called with (h, tfh, p, tfp, solver, request), and the distance returned
\* equals the distance the call with the operands exchanged returns.
C2_OrderInvariantLookup ==
  (Returned /\ MixedPair(ret.call)) =>
    LET c     == ret.call
        hIs1  == getObjectType(c.o1) = "OT_BVH"
        hh    == IF hIs1 THEN c.o1 ELSE c.o2
        tfh   == IF hIs1 THEN c.tf1 ELSE c.tf2
        p     == IF hIs1 THEN c.o2 ELSE c.o1
        tfp   == IF hIs1 THEN c.tf2 ELSE c.tf1
        other == distance(c.S, c.o2, c.tf2, c.o1, c.tf1, c.nsolver_, c.request,
                          tables[c.S], ret.heapBefore)
    IN  /\ ret.out.cell = <<hh, p>>
        /\ ret.out.invoked =>
             ret.out.args = <<hh, tfh, p, tfp, ret.out.nsolver, c.request>>
        /\ other.cell = ret.out.cell
        /\ other.invoked = ret.out.invoked
        /\ other.res = ret.out.res

\* C2 witness: a supported pair given primitive first, with two transforms.
C2_Witness ==
  /\ Returned
  /\ ret.call.o1 = "GEOM_BOX" /\ ret.call.o2 = "BV_AABB"
  /\ ret.call.tf1 # ret.call.tf2
  /\ ret.out.invoked
  /\ ret.out.res # ScalarMax

\* C9: a call without a solver constructs exactly one solver, passes it to
\* the routine and has released it when it returns, whether or not a routine
\* was invoked; a call with a solver constructs and releases none and passes
\* the caller's instance, which is still alive afterwards.
C9_SolverOwnership ==
  Returned =>
    LET c == ret.call
        o == ret.out
    IN  IF c.nsolver_ = NullSolver
        THEN /\ Cardinality(o.constructed) = 1
             /\ o.constructed \cap ret.heapBefore = {}
             /\ o.released = o.constructed
             /\ o.heap = ret.heapBefore
             /\ o.invoked => o.args[5] \in o.constructed
        ELSE /\ o.constructed = {}
             /\ o.released = {}
             /\ c.nsolver_ \in o.heap
             /\ o.heap = ret.heapBefore
             /\ o.invoked => o.args[5] = c.nsolver_

\* C9 witness: no solver supplied and the pair unsupported.
C9_Witness ==
  /\ Returned
  /\ ret.call.nsolver_ = NullSolver
  /\ ~ret.out.invoked
  /\ ret.out.released # {}

\* The call swapped its operands: first operand OT_GEOM, second OT_BVH.
SwappedCall ==
  /\ Returned
  /\ getObjectType(ret.call.o1) = "OT_GEOM"
  /\ getObjectType(ret.call.o2) = "OT_BVH"
  /\ ret.out.invoked

\* C12: when distance() swaps the operands, the result it leaves is in the
\* caller's operand order: the per-operand fields refer to the caller's
\* first and second operand, not to the routine's first and second argument.
C12_ResultInCallerOrder ==
  SwappedCall =>
    /\ ret.out.result.o1 = ret.call.o1
    /\ ret.out.result.o2 = ret.call.o2

\* What distance() leaves instead: the result as the routine filled it, its
\* first operand being the caller's second.
C12_ResultInRoutineOrder ==
  SwappedCall =>
    /\ ret.out.result = RoutineResult(ret.out.fn, ret.call.o2, ret.call.tf2,
                                      ret.call.o1, ret.call.tf1)
    /\ ret.out.result.o1 = ret.call.o2
    /\ ret.out.result.o2 = ret.call.o1

\* C8: for each solver type the table is constructed at most once, a thread
\* that is about to read a cell sees the completely constructed table, and
\* a constructed table never differs from the value its constructor gave it.
C8_TableBuiltOnce ==
  /\ \A S \in Solvers :
       /\ tables[S].builds <= 1
       /\ tables[S].guard # "uninit" => tables[S].builds = 1
       /\ tables[S].guard = "done" =>
            tables[S].distance_matrix = DistanceFunctionMatrix(NumRows)
  /\ \A t \in Threads :
       pc[t] = "lookup" =>
         /\ tables[targs[t].S].guard = "done"
         /\ tables[targs[t].S].distance_matrix = DistanceFunctionMatrix(NumRows)

\* C8 witness: one thread is constructing the table, partly filled, while
\* another thread that needs the same table waits at the declaration.
C8_Witness ==
  \E t \in Threads, u \in Threads :
    /\ t # u
    /\ pc[t] = "construct" /\ pc[u] = "enter"
    /\ targs[t].S = targs[u].S
    /\ tables[targs[t].S].rows = 1

(***************************************************************************)
(* Part 2: shape/halfspace.h                                               *)
(*                                                                         *)
(* Numbers.  A scalar is q / sqrt(r) with q an integer and r a positive    *)
(* integer, or one of +/- std::numeric_limits<FCL_REAL>::max().  The three *)
(* components of a normal and the offset of one Halfspace share the r of   *)
(* the record, which is what a division of all four by the same norm       *)
(* produces.  Arithmetic is exact: the rotations of the model are the      *)
(* 90-degree rotations, which permute and negate components and so are     *)
(* exact in floating point as well.                                        *)
(***************************************************************************)

Fin(q, r) == [m |-> 0, q |-> q, r |-> r]

\* +std::numeric_limits<FCL_REAL>::max() and its negation.
Max    == [m |-> 1, q |-> 0, r |-> 1]
NegMax == [m |-> 0 - 1, q |-> 0, r |-> 1]

SNeg(x) == Fin(0 - x.q, x.r)
SMul(x, y) == Fin(x.q * y.q, x.r * y.r)
SInt(k) == Fin(k, 1)

\* x = y and x <= y for finite scalars, by signs and squares.
FinEq(x, y) ==
  /\ (x.q > 0) = (y.q > 0)
  /\ (x.q < 0) = (y.q < 0)
  /\ x.q * x.q * y.r = y.q * y.q * x.r

FinLe(x, y) ==
  IF x.q <= 0 /\ y.q >= 0 THEN TRUE
  ELSE IF x.q >= 0 /\ y.q <= 0 THEN FALSE
  ELSE IF x.q > 0 THEN x.q * x.q * y.r <= y.q * y.q * x.r
  ELSE x.q * x.q * y.r >= y.q * y.q * x.r

SEq(x, y) == IF x.m # 0 \/ y.m # 0 THEN x.m = y.m ELSE FinEq(x, y)

SLe(x, y) ==
  IF x.m # 0 \/ y.m # 0 THEN x.m <= y.m ELSE FinLe(x, y)

Dot(u, v) == u[1] * v[1] + u[2] * v[2] + u[3] * v[3]

VAdd(u, v) == <<u[1] + v[1], u[2] + v[2], u[3] + v[3]>>

\* Matrix (a tuple of rows) times vector, and matrix product.
MatVec(M, v) == <<Dot(M[1], v), Dot(M[2], v), Dot(M[3], v)>>

Col(M, j) == <<M[1][j], M[2][j], M[3][j]>>

MatMul(A, B) ==
  [i \in 1..3 |-> [j \in 1..3 |-> Dot(A[i], Col(B, j))]]

\* Transform3: tf.linear() and tf.translation().
Identity3 == <<<<1, 0, 0>>, <<0, 1, 0>>, <<0, 0, 1>>>>
RotZ90    == <<<<0, 0 - 1, 0>>, <<1, 0, 0>>, <<0, 0, 1>>>>
RotX90    == <<<<1, 0, 0>>, <<0, 0, 0 - 1>>, <<0, 1, 0>>>>

Rotations == {Identity3, RotZ90, RotX90}

Translations == {<<0, 0, 0>>, <<1, 0, 0>>, <<0, 1, 0 - 1>>}

Transforms == [linear : Rotations, translation : Translations]

TransformIdentity == [linear |-> Identity3, translation |-> <<0, 0, 0>>]

\* Halfspace::unitNormalTest(): l = n.norm(); with l > 0 the normal and the
\* offset are multiplied by 1/l, otherwise n = (1,0,0), d = 0.
\* s.n / sqrt(s.r) has the squared norm (s.n . s.n) / s.r, and dividing
\* q / sqrt(s.r) by that norm gives q / sqrt(s.n . s.n).
\* Mutants: no normalisation; the degenerate branch keeps the offset.
unitNormalTest_noscale(s) ==
  IF Dot(s.n, s.n) > 0 THEN s ELSE [n |-> <<1, 0, 0>>, d |-> 0, r |-> 1]

unitNormalTest_keepd(s) ==
  IF Dot(s.n, s.n) > 0
  THEN [n |-> s.n, d |-> s.d, r |-> Dot(s.n, s.n)]
  ELSE [n |-> <<1, 0, 0>>, d |-> s.d, r |-> 1]

unitNormalTest(s) ==
  IF Dot(s.n, s.n) > 0
  THEN [n |-> s.n, d |-> s.d, r |-> Dot(s.n, s.n)]
  ELSE [n |-> <<1, 0, 0>>, d |-> 0, r |-> 1]

\* Halfspace(const Vector3& n, Scalar d), the inputs being n / sqrt(r) and
\* d / sqrt(r).
HalfspaceND(n, d, r) == unitNormalTest([n |-> n, d |-> d, r |-> r])

\* Halfspace(Scalar a, Scalar b, Scalar c, Scalar d).
HalfspaceABCD(a, b, c, d) == unitNormalTest([n |-> <<a, b, c>>, d |-> d, r |-> 1])

\* Halfspace().
HalfspaceDefault == [n |-> <<1, 0, 0>>, d |-> 0, r |-> 1]

\* transform(a, tf): n = tf.linear() * a.n; d = a.d + n.dot(tf.translation());
\* return Halfspace(n, d).
\* Mutant: the offset is computed with the normal before the rotation.
transform_oldnormal(a, tf) ==
  HalfspaceND(MatVec(tf.linear, a.n), a.d + Dot(a.n, tf.translation), a.r)

transform(a, tf) ==
  LET n == MatVec(tf.linear, a.n)
      d == a.d + Dot(n, tf.translation)
  IN  HalfspaceND(n, d, a.r)

\* Halfspace::signedDistance(p) and Halfspace::distance(p) for an integer
\* point p, as scalars over the radical of s.
signedDistance(s, p) == Fin(Dot(s.n, p) - s.d, s.r)

Abs(k) == IF k < 0 THEN 0 - k ELSE k

distanceToPoint(s, p) == Fin(Abs(Dot(s.n, p) - s.d), s.r)

\* ComputeBVImpl<AABBd, Halfspace>.
\* Mutant: the negative branch is given the offset without the negation.
AABBUniversal ==
  [kind |-> "AABB", min_ |-> <<NegMax, NegMax, NegMax>>, max_ |-> <<Max, Max, Max>>]

ComputeBV_AABB_nonegate(s, tf) ==
  LET new_s == transform(s, tf)
      n == new_s.n
      d == Fin(new_s.d, new_s.r)
      bv_ == AABBUniversal
  IN  IF n[2] = 0 /\ n[3] = 0
      THEN IF n[1] < 0 THEN [bv_ EXCEPT !.min_[1] = d]
           ELSE IF n[1] > 0 THEN [bv_ EXCEPT !.max_[1] = d] ELSE bv_
      ELSE IF n[1] = 0 /\ n[3] = 0
      THEN IF n[2] < 0 THEN [bv_ EXCEPT !.min_[2] = d]
           ELSE IF n[2] > 0 THEN [bv_ EXCEPT !.max_[2] = d] ELSE bv_
      ELSE IF n[1] = 0 /\ n[2] = 0
      THEN IF n[3] < 0 THEN [bv_ EXCEPT !.min_[3] = d]
           ELSE IF n[3] > 0 THEN [bv_ EXCEPT !.max_[3] = d] ELSE bv_
      ELSE bv_

ComputeBV_AABB(s, tf) ==
  LET new_s == transform(s, tf)
      n == new_s.n
      d == Fin(new_s.d, new_s.r)
      bv_ == AABBUniversal
  IN  IF n[2] = 0 /\ n[3] = 0
      THEN IF n[1] < 0 THEN [bv_ EXCEPT !.min_[1] = SNeg(d)]
           ELSE IF n[1] > 0 THEN [bv_ EXCEPT !.max_[1] = d] ELSE bv_
      ELSE IF n[1] = 0 /\ n[3] = 0
      THEN IF n[2] < 0 THEN [bv_ EXCEPT !.min_[2] = SNeg(d)]
           ELSE IF n[2] > 0 THEN [bv_ EXCEPT !.max_[2] = d] ELSE bv_
      ELSE IF n[1] = 0 /\ n[2] = 0
      THEN IF n[3] < 0 THEN [bv_ EXCEPT !.min_[3] = SNeg(d)]
           ELSE IF n[3] > 0 THEN [bv_ EXCEPT !.max_[3] = d] ELSE bv_
      ELSE bv_

\* KDOP: dist(0..D-1) = -max, dist(D..2D-1) = +max.
KDOPUniversal(D) == [i \in 0..(2 * D - 1) |-> IF i < D THEN NegMax ELSE Max]

\* n[i] * d * c for a component n[i] = ni / sqrt(r) and d = dq / sqrt(r).
Scaled(ni, dq, r, c) == SMul(SMul(Fin(ni, r), Fin(dq, r)), SInt(c))

\* The tests shared by the three KDOP specialisations: the three axes and
\* the five 2-term diagonals x+y, x+z, y+z, x-y, x-z; `rest` is the value of
\* the remainder of the else-if chain.
KDOPChain8(n, dq, r, D, dist, rest) ==
  IF n[2] = 0 /\ n[3] = 0
  THEN IF n[1] > 0 THEN [dist EXCEPT ![D] = Fin(dq, r)]
       ELSE [dist EXCEPT ![0] = Fin(0 - dq, r)]
  ELSE IF n[1] = 0 /\ n[3] = 0
  THEN IF n[2] > 0 THEN [dist EXCEPT ![D + 1] = Fin(dq, r)]
       ELSE [dist EXCEPT ![1] = Fin(0 - dq, r)]
  ELSE IF n[1] = 0 /\ n[2] = 0
  THEN IF n[3] > 0 THEN [dist EXCEPT ![D + 2] = Fin(dq, r)]
       ELSE [dist EXCEPT ![2] = Fin(0 - dq, r)]
  ELSE IF n[3] = 0 /\ n[1] = n[2]
  THEN IF n[1] > 0 THEN [dist EXCEPT ![D + 3] = Scaled(n[1], dq, r, 2)]
       ELSE [dist EXCEPT ![3] = Scaled(n[1], dq, r, 2)]
  ELSE IF n[2] = 0 /\ n[1] = n[3]
  THEN IF n[2] > 0 THEN [dist EXCEPT ![D + 4] = Scaled(n[1], dq, r, 2)]
       ELSE [dist EXCEPT ![4] = Scaled(n[1], dq, r, 2)]
  ELSE IF n[1] = 0 /\ n[2] = n[3]
  THEN IF n[2] > 0 THEN [dist EXCEPT ![D + 5] = Scaled(n[2], dq, r, 2)]
       ELSE [dist EXCEPT ![5] = Scaled(n[2], dq, r, 2)]
  ELSE IF n[3] = 0 /\ n[1] + n[2] = 0
  THEN IF n[1] > 0 THEN [dist EXCEPT ![D + 6] = Scaled(n[1], dq, r, 2)]
       ELSE [dist EXCEPT ![6] = Scaled(n[1], dq, r, 2)]
  ELSE IF n[2] = 0 /\ n[1] + n[3] = 0
  THEN IF n[1] > 0 THEN [dist EXCEPT ![D + 7] = Scaled(n[1], dq, r, 2)]
       ELSE [dist EXCEPT ![7] = Scaled(n[1], dq, r, 2)]
  ELSE rest

\* The further test of KDOP<18> and KDOP<24>: the diagonal y-z.
KDOPChain9(n, dq, r, D, dist, rest) ==
  KDOPChain8(n, dq, r, D, dist,
    IF n[1] = 0 /\ n[2] + n[3] = 0
    THEN IF n[2] > 0 THEN [dist EXCEPT ![D + 8] = Scaled(n[2], dq, r, 2)]
         ELSE [dist EXCEPT ![8] = Scaled(n[2], dq, r, 2)]
    ELSE rest)

\* ComputeBVImpl<KDOPd<16>, Halfspace>.
ComputeBV_KDOP16(s, tf) ==
  LET new_s == transform(s, tf)
      D == 8
      dist == KDOPUniversal(D)
  IN  [kind |-> "KDOP16", D |-> D,
       dist |-> KDOPChain8(new_s.n, new_s.d, new_s.r, D, dist, dist)]

\* ComputeBVImpl<KDOPd<18>, Halfspace>.
ComputeBV_KDOP18(s, tf) ==
  LET new_s == transform(s, tf)
      D == 9
      dist == KDOPUniversal(D)
  IN  [kind |-> "KDOP18", D |-> D,
       dist |-> KDOPChain9(new_s.n, new_s.d, new_s.r, D, dist, dist)]

\* The conditions of the three 3-term tests of KDOP<24>, in the order of the
\* source (lines 399, 404 and 409).
ThreeTermTest(j, n) ==
  CASE j = 1 -> n[1] + n[3] = 0 /\ n[1] + n[2] = 0
    [] j = 2 -> n[1] + n[2] = 0 /\ n[2] + n[3] = 0
    [] OTHER -> n[1] + n[2] = 0 /\ n[1] + n[3] = 0

\* ComputeBVImpl<KDOPd<24>, Halfspace>: after the nine tests, the three
\* 3-term tests in the order of the source.
ComputeBV_KDOP24(s, tf) ==
  LET new_s == transform(s, tf)
      n == new_s.n
      dq == new_s.d
      r == new_s.r
      D == 12
      dist == KDOPUniversal(D)
  IN  [kind |-> "KDOP24", D |-> D,
       dist |-> KDOPChain9(n, dq, r, D, dist,
         IF ThreeTermTest(1, n)
         THEN IF n[1] > 0 THEN [dist EXCEPT ![D + 9] = Scaled(n[1], dq, r, 3)]
              ELSE [dist EXCEPT ![9] = Scaled(n[1], dq, r, 3)]
         ELSE IF ThreeTermTest(2, n)
         THEN IF n[1] > 0 THEN [dist EXCEPT ![D + 10] = Scaled(n[1], dq, r, 3)]
              ELSE [dist EXCEPT ![10] = Scaled(n[1], dq, r, 3)]
         ELSE IF ThreeTermTest(3, n)
         THEN IF n[2] > 0 THEN [dist EXCEPT ![D + 11] = Scaled(n[2], dq, r, 3)]
              ELSE [dist EXCEPT ![11] = Scaled(n[2], dq, r, 3)]
         ELSE dist)]

\* Inputs of the constructors: the zero vector, a non-unit axis vector, the
\* 2-term and 3-term diagonals and a vector aligned with no direction.
NormalInputs ==
  {<<0, 0, 0>>, <<2, 0, 0>>, <<1, 1, 0>>, <<1, 0, 1>>, <<1, 0 - 1, 0>>,
   <<1, 1, 1>>, <<1, 1, 0 - 1>>, <<1, 2, 2>>}

\* Offsets given to the constructors are in -MaxD..MaxD.
MaxD == 1

\* Transform() is not applied when the resulting offset leaves
\* -MaxOffset..MaxOffset.
MaxOffset == 2

Construct(n, d) ==
  /\ h' = HalfspaceND(n, d, 1)
  /\ last' = [kind |-> "ctorND", n |-> n, d |-> d]
  /\ UNCHANGED <<distVars, initVars>>

ConstructABCD(a, b, c, d) ==
  /\ h' = HalfspaceABCD(a, b, c, d)
  /\ last' = [kind |-> "ctorABCD", n |-> <<a, b, c>>, d |-> d]
  /\ UNCHANGED <<distVars, initVars>>

ConstructDefault ==
  /\ h' = HalfspaceDefault
  /\ last' = [kind |-> "ctorDefault"]
  /\ UNCHANGED <<distVars, initVars>>

Transform(tf) ==
  LET out == transform(h, tf) IN
    /\ Abs(out.d) <= MaxOffset
    /\ h' = out
    /\ last' = [kind |-> "transform", a |-> h, tf |-> tf]
    /\ UNCHANGED <<distVars, initVars>>

FitAABB(tf) ==
  /\ last' = [kind |-> "fit", s |-> h, tf |-> tf, bv |-> ComputeBV_AABB(h, tf)]
  /\ UNCHANGED <<h, distVars, initVars>>

FitKDOP16(tf) ==
  /\ last' = [kind |-> "fit", s |-> h, tf |-> tf, bv |-> ComputeBV_KDOP16(h, tf)]
  /\ UNCHANGED <<h, distVars, initVars>>

FitKDOP18(tf) ==
  /\ last' = [kind |-> "fit", s |-> h, tf |-> tf, bv |-> ComputeBV_KDOP18(h, tf)]
  /\ UNCHANGED <<h, distVars, initVars>>

FitKDOP24(tf) ==
  /\ last' = [kind |-> "fit", s |-> h, tf |-> tf, bv |-> ComputeBV_KDOP24(h, tf)]
  /\ UNCHANGED <<h, distVars, initVars>>

InitHalfspace ==
  /\ DistInit
  /\ pc = <<>>
  /\ targs = <<>>
  /\ h = HalfspaceDefault
  /\ last = [kind |-> "ctorDefault"]

NextHalfspace ==
  \/ \E n \in NormalInputs, d \in (0 - MaxD)..MaxD : Construct(n, d)
  \/ \E n \in NormalInputs, d \in (0 - MaxD)..MaxD : ConstructABCD(n[1], n[2], n[3], d)
  \/ ConstructDefault
  \/ \E tf \in Transforms : Transform(tf)
  \/ \E tf \in Transforms : FitAABB(tf)
  \/ \E tf \in Transforms : FitKDOP16(tf)
  \/ \E tf \in Transforms : FitKDOP18(tf)
  \/ \E tf \in Transforms : FitKDOP24(tf)

SpecHalfspace == InitHalfspace /\ [][NextHalfspace]_vars

(***************************************************************************)
(* Claims about Halfspace                                                  *)
(***************************************************************************)

\* Support directions of the k-DOP, entry i the lower and D + i the upper
\* bound of Dir(i) . x.
Dir(i) ==
  CASE i = 0 -> <<1, 0, 0>>      [] i = 1 -> <<0, 1, 0>>
    [] i = 2 -> <<0, 0, 1>>      [] i = 3 -> <<1, 1, 0>>
    [] i = 4 -> <<1, 0, 1>>      [] i = 5 -> <<0, 1, 1>>
    [] i = 6 -> <<1, 0 - 1, 0>>  [] i = 7 -> <<1, 0, 0 - 1>>
    [] i = 8 -> <<0, 1, 0 - 1>>  [] i = 9 -> <<1, 1, 0 - 1>>
    [] i = 10 -> <<1, 0 - 1, 1>> [] OTHER -> <<0 - 1, 1, 1>>

Cross(u, v) ==
  <<u[2] * v[3] - u[3] * v[2], u[3] * v[1] - u[1] * v[3], u[1] * v[2] - u[2] * v[1]>>

\* Points with integer coordinates in -MaxCoord..MaxCoord.
MaxCoord == 1

Grid == LET C == (0 - MaxCoord)..MaxCoord IN C \X C \X C

\* x' = R x + T.
ImagePoint(tf, x) == VAdd(MatVec(tf.linear, x), tf.translation)

\* x is in {x : n . x <= d}.
InHalfspace(s, x) == SLe(Fin(Dot(s.n, x), s.r), Fin(s.d, s.r))

InsideBV(bv, x) ==
  IF bv.kind = "AABB"
  THEN \A i \in 1..3 : SLe(bv.min_[i], SInt(x[i])) /\ SLe(SInt(x[i]), bv.max_[i])
  ELSE \A i \in 0..(bv.D - 1) :
         /\ SLe(bv.dist[i], SInt(Dot(Dir(i), x)))
         /\ SLe(SInt(Dot(Dir(i), x)), bv.dist[bv.D + i])

FitState == last.kind = "fit"
KDOPFit == FitState /\ last.bv.kind # "AABB"
AABBFit == FitState /\ last.bv.kind = "AABB"

\* The rotated normal direction and the offset d' = d + n' . T of the
\* half-space a fit was given, from the inputs of the fit.
FitNormal == MatVec(last.tf.linear, last.s.n)
FitOffset == Fin(last.s.d + Dot(FitNormal, last.tf.translation), last.s.r)

\* C3: the bound returned by a fit contains the image under the transform
\* of every point of the half-space.
C3_FitContainsHalfspace ==
  FitState =>
    \A x \in Grid :
      InHalfspace(last.s, x) => InsideBV(last.bv, ImagePoint(last.tf, x))

\* The AxisAlignedBox part of C3.
C3_AABBContainsHalfspace == AABBFit => C3_FitContainsHalfspace

Universal(bv, i) == bv.min_[i] = NegMax /\ bv.max_[i] = Max

\* C4: the AABB fit makes exactly one face finite when the transformed
\* normal has exactly two zero components: max = d' on the axis of a positive
\* component, min = -d' on the axis of a negative one; every other face, and
\* every face when the normal is not axis aligned, is +/- max.
C4_AABBOnlyAxisAligned ==
  AABBFit =>
    LET np == FitNormal
        bv == last.bv
        zeros == {i \in 1..3 : np[i] = 0}
    IN  IF Cardinality(zeros) = 2
        THEN LET a == CHOOSE i \in 1..3 : np[i] # 0 IN
               /\ \A i \in zeros : Universal(bv, i)
               /\ np[a] > 0 =>
                    /\ bv.max_[a].m = 0 /\ SEq(bv.max_[a], FitOffset)
                    /\ bv.min_[a] = NegMax
               /\ np[a] < 0 =>
                    /\ bv.min_[a].m = 0 /\ SEq(bv.min_[a], SNeg(FitOffset))
                    /\ bv.max_[a] = Max
        ELSE \A i \in 1..3 : Universal(bv, i)

\* C4 witness: a rotated and translated half-space whose normal ends up on
\* the negative y axis, with a non-zero offset.
C4_Witness ==
  /\ AABBFit
  /\ last.tf.linear # Identity3
  /\ last.tf.translation # <<0, 0, 0>>
  /\ FitNormal[1] = 0 /\ FitNormal[2] < 0 /\ FitNormal[3] = 0
  /\ last.bv.min_[2].m = 0 /\ last.bv.min_[2].q # 0

MatchedDirs(np, D) == {i \in 0..(D - 1) : Cross(np, Dir(i)) = <<0, 0, 0>>}

FiniteEntries(bv) == {i \in 0..(2 * bv.D - 1) : bv.dist[i].m = 0}

UntouchedElsewhere(bv) ==
  \A i \in (0..(2 * bv.D - 1)) \ FiniteEntries(bv) :
    bv.dist[i] = IF i < bv.D THEN NegMax ELSE Max

\* C5: a k-DOP fit leaves exactly one support entry finite when the
\* transformed normal is parallel to one of the k directions and none
\* otherwise, all other entries keeping their initial value; for a normal
\* (1,1,0)/sqrt2 the finite entry is n[0]*d*2.
C5_OneFiniteEntryIffAligned ==
  KDOPFit =>
    LET np == FitNormal
        bv == last.bv
    IN  /\ Cardinality(FiniteEntries(bv)) =
             IF MatchedDirs(np, bv.D) # {} THEN 1 ELSE 0
        /\ UntouchedElsewhere(bv)
        /\ (np[1] = np[2] /\ np[1] > 0 /\ np[3] = 0) =>
             \A i \in FiniteEntries(bv) :
               SEq(bv.dist[i], Scaled(np[1], FitOffset.q, FitOffset.r, 2))

\* The part of C5 that does not depend on which normals count as aligned:
\* never more than one finite entry, the others untouched.
C5_AtMostOneFiniteEntry ==
  KDOPFit => Cardinality(FiniteEntries(last.bv)) <= 1 /\ UntouchedElsewhere(last.bv)

\* C5 restricted to k = 8 and k = 9.
C5_K8K9 == (KDOPFit /\ last.bv.D < 12) => C5_OneFiniteEntryIffAligned

\* C10: when the transformed normal is parallel to direction i, the entry
\* tightened is the upper entry D + i for a normal along +Dir(i) and the
\* lower entry i for a normal along -Dir(i).
C10_TightenedEntryAgreesWithSign ==
  KDOPFit =>
    LET np == FitNormal
        bv == last.bv
    IN  \A i \in MatchedDirs(np, bv.D) :
          FiniteEntries(bv) = {IF Dot(np, Dir(i)) > 0 THEN bv.D + i ELSE i}

\* C10 without the directions x+z, x+y-z and y+z-x.
C10_OtherDirections ==
  KDOPFit =>
    LET np == FitNormal
        bv == last.bv
    IN  \A i \in MatchedDirs(np, bv.D) \ {4, 9, 11} :
          FiniteEntries(bv) = {IF Dot(np, Dir(i)) > 0 THEN bv.D + i ELSE i}

\* The component the j-th 3-term test multiplies by d * 3.
ThreeTermComponent(j, n) == IF j = 3 THEN n[2] ELSE n[1]

\* C11: in the k = 12 fit the three 3-term tests are pairwise distinct
\* conditions on the normal, and a normal that satisfies the j-th of them
\* tightens an entry of the j-th 3-term pair (8+j or 20+j) to
\* (component) * d * 3: no 3-term test is shadowed by an earlier one.
C11_ThreeTermTestsNotShadowed ==
  (KDOPFit /\ last.bv.D = 12) =>
    LET n == FitNormal
        bv == last.bv
    IN  /\ \A j \in 1..3, k \in 1..3 :
             j # k => ~(ThreeTermTest(j, n) /\ ThreeTermTest(k, n))
        /\ \A j \in 1..3 :
             ThreeTermTest(j, n) =>
               \E e \in {8 + j, bv.D + 8 + j} :
                 /\ FiniteEntries(bv) = {e}
                 /\ SEq(bv.dist[e],
                        Scaled(ThreeTermComponent(j, n), FitOffset.q, FitOffset.r, 3))

\* What the k = 12 fit does instead: the pair 11/23 is never tightened,
\* and the first two 3-term tests behave as C11 states.
C11_ThirdPairNeverTightened ==
  (KDOPFit /\ last.bv.D = 12) =>
    /\ last.bv.dist[11] = NegMax /\ last.bv.dist[23] = Max
    /\ \A j \in 1..2 :
         ThreeTermTest(j, FitNormal) =>
           \E e \in {8 + j, 20 + j} :
             /\ FiniteEntries(last.bv) = {e}
             /\ SEq(last.bv.dist[e],
                    Scaled(ThreeTermComponent(j, FitNormal), FitOffset.q, FitOffset.r, 3))

\* Equality of two half-spaces as sets of numbers (n, d).
HEq(a, b) ==
  /\ \A i \in 1..3 : FinEq(Fin(a.n[i], a.r), Fin(b.n[i], b.r))
  /\ FinEq(Fin(a.d, a.r), Fin(b.d, b.r))

\* Composition of rigid transforms: (T2 * T1)(x) = T2(T1(x)).
Compose(T2, T1) ==
  [linear |-> MatMul(T2.linear, T1.linear),
   translation |-> VAdd(MatVec(T2.linear, T1.translation), T2.translation)]

\* C6: transform(a, tf) has the normal R n and the offset d + (R n) . T;
\* the identity transform returns an equal half-space; transforming the
\* result once more by T2 equals transforming a by the composition T2 * tf.
C6_TransformComposes ==
  last.kind = "transform" =>
    LET a == last.a
        tf == last.tf
        np == MatVec(tf.linear, a.n)
    IN  /\ HEq(h, [n |-> np, d |-> a.d + Dot(np, tf.translation), r |-> a.r])
        /\ tf = TransformIdentity => HEq(h, a)
        /\ \A T2 \in Transforms :
             HEq(transform(h, T2), transform(a, Compose(T2, tf)))

\* C6 witness: a diagonal half-space rotated and translated, the offset
\* changed by the translation.
C6_Witness ==
  /\ last.kind = "transform"
  /\ last.tf.linear = RotZ90
  /\ last.tf.translation = <<0, 1, 0 - 1>>
  /\ last.a.n = <<1, 1, 0>>
  /\ h.d # last.a.d

IsUnit(s) == Dot(s.n, s.n) = s.r

\* C7: the Halfspace always has a unit normal; built from a non-zero
\* normal n and offset d it is n/|n|, d/|n|; built from the zero normal it is
\* (1,0,0), 0 whatever d was; built without arguments it is (1,0,0), 0.
C7_UnitNormal ==
  /\ IsUnit(h)
  /\ last.kind \in {"ctorND", "ctorABCD"} =>
       IF last.n # <<0, 0, 0>>
       THEN HEq(h, [n |-> last.n, d |-> last.d, r |-> Dot(last.n, last.n)])
       ELSE HEq(h, [n |-> <<1, 0, 0>>, d |-> 0, r |-> 1])
  /\ last.kind = "ctorDefault" => HEq(h, [n |-> <<1, 0, 0>>, d |-> 0, r |-> 1])

\* C7 witness: plane coefficients of norm 3 with a non-zero offset.
C7_Witness ==
  /\ last.kind = "ctorABCD"
  /\ last.n = <<1, 2, 2>> /\ last.d = 1
  /\ h.r = 9 /\ h.d = 1

\* C7, the degenerate case reached: a zero normal given with an offset.
C7_WitnessZero ==
  /\ last.kind = "ctorND"
  /\ last.n = <<0, 0, 0>> /\ last.d = 1
  /\ h.n = <<1, 0, 0>> /\ h.d = 0

====
